---- MODULE Spec2Model ----
(***************************************************************************)
(* Model of web_driver.py: the EdgeDriverLocal object and the escalation   *)
(* ladder of the __main__ block (smoke test, matched download, smoke test, *)
(* alternative versions, notification, copy to the bot folders).           *)
(*                                                                         *)
(* Text (versions, OS tags, blob names, URLs) is a sequence of one-letter  *)
(* strings, so that str.split and the `in` substring test are computed.    *)
(* The outcome of a smoke test is decided by the binary on the disk; the   *)
(* outcome of an HTTP request is an input of the step that sends it.       *)
(***************************************************************************)
EXTENDS Integers, Sequences, FiniteSets, TLC

\* ---------------------------------------------------------------- bounds
MaxListing == 3   \* longest index listing (number of <Blob> elements)
MaxRuns == 2      \* number of successive runs of the script

\* ------------------------------------------------------------------ text
DOT == "."
SLASH == "/"

win64 == <<"w", "i", "n", "6", "4">>
win32 == <<"w", "i", "n", "3", "2">>
OsTypes == {win64, win32}

v103_0 == <<"1", "0", "3", DOT, "0">>
v103_1 == <<"1", "0", "3", DOT, "1">>
v10_3 == <<"1", "0", DOT, "3">>

\* versions _get_edge_version can return
EdgeVersions == {v103_0, v10_3}
\* versions that have blobs in the index
BlobVersions == {v103_1, v10_3}

\* "{version}/edgedriver_{os_type}.zip", the path that follows the storage
\* host in self.url and the Name of a blob of the index
DriverPath(v, o) == v \o <<SLASH>> \o o

BlobNames == {DriverPath(v, o) : v \in BlobVersions, o \in OsTypes}

\* one <Blob> element as xmltodict renders it
Blob(n) == [Name |-> n, Url |-> n]
Blobs == {Blob(n) : n \in BlobNames}

RECURSIVE SeqsUpTo(_, _)
SeqsUpTo(S, n) ==
    IF n = 0 THEN {<<>>}
    ELSE LET shorter == SeqsUpTo(S, n - 1)
         IN shorter \cup {Append(s, x) : s \in {t \in shorter : Len(t) = n - 1}, x \in S}

Listings == SeqsUpTo(Blobs, MaxListing)

\* s.split(".")[0]
RECURSIVE Split0(_)
Split0(s) ==
    IF s = <<>> \/ Head(s) = DOT THEN <<>>
    ELSE <<Head(s)>> \o Split0(Tail(s))

\* sub in s
StrIn(sub, s) ==
    \E k \in 0..(Len(s) - Len(sub)) : SubSeq(s, k + 1, k + Len(sub)) = sub

\* a Python bool as the model stores it, beside "unset"
PyBool(b) == IF b THEN "True" ELSE "False"

\* ---------------------------------------------------------- environment
\* what is at DRIVER_NAME in the working directory
\*   good     launches and closes
\*   noclose  launches, driver.close() raises
\*   nolaunch webdriver.Edge raises (missing or incompatible driver)
\*   partial  left by an extraction that failed midway, does not launch
BinaryKinds == {"good", "noclose", "nolaunch", "partial"}

\* what requests.get(self.url) and the extraction come to
Responses == {"200_good", "200_noclose", "200_nolaunch", "200_badzip", "404", "neterror"}

StatusCode(resp) == IF resp = "404" THEN 404 ELSE 200
Payload(resp) ==
    CASE resp = "200_good" -> "good"
      [] resp = "200_noclose" -> "noclose"
      [] resp = "200_nolaunch" -> "nolaunch"
      [] OTHER -> "partial"

VARIABLES
    version,        \* self.version
    os_type,        \* self.os_type
    url,            \* self.url
    disk,           \* the binary at DRIVER_NAME
    pc,             \* position in the __main__ block
    run,            \* number of the current run
    startDisk,      \* disk when the run started
    prevOutcome,    \* how the previous run ended
    test1,          \* result of the first s.test()
    dlResp,         \* response to the matched-version download
    dlRet,          \* what s.download() returned at stage 2
    test2,          \* result of the second s.test()
    status,         \* result of s.try_another_version()
    tavError,       \* what raised inside try_another_version
    listing,        \* the <Blob> elements of the fetched index
    list_urls,      \* the candidates the loop iterates
    i,              \* position of the loop in list_urls
    attempts,       \* one record per loop iteration
    downloadCalls,  \* calls of download in this run
    testCalls,      \* calls of test in this run
    indexFetches,   \* GETs of BASE_URL in this run
    sendMailCalls,  \* calls of send_mail in this run
    mailsSent,      \* messages m.send() delivered in this run
    copyCalls,      \* calls of copy_to_path in this run
    driverRunning,  \* a driver process launched by the last test is alive
    exitStatus      \* exit status of the process, "running" before it ends

vars == <<version, os_type, url, disk, pc, run, startDisk, prevOutcome, test1,
          dlResp, dlRet, test2, status, tavError, listing, list_urls, i,
          attempts, downloadCalls, testCalls, indexFetches, sendMailCalls,
          mailsSent, copyCalls, driverRunning, exitStatus>>


\* ----------------------------------------------------- EdgeDriverLocal
\* test(): True when webdriver.Edge and driver.close() raise nothing; the
\* except clause has no finally, the process is closed by driver.close() alone
test(kind) ==
    LET launched == kind \in {"good", "noclose"}
        closed == launched /\ kind = "good"
    IN [ret |-> launched /\ closed, running |-> launched /\ ~closed]

\* download(): r.ok after the extraction when the status is 200, False on
\* another status and on every exception; the extraction writes the disk
downloadIgnoresStatus(resp, d) ==
    IF resp = "neterror" THEN [ret |-> FALSE, disk |-> d]
    ELSE IF resp = "200_badzip"
         THEN [ret |-> FALSE, disk |-> "partial"]
         ELSE [ret |-> TRUE, disk |-> Payload(resp)]
download(resp, d) ==
    IF resp = "neterror" THEN [ret |-> FALSE, disk |-> d]
    ELSE IF StatusCode(resp) = 200
         THEN IF resp = "200_badzip"
              THEN [ret |-> FALSE, disk |-> "partial"]
              ELSE [ret |-> TRUE, disk |-> Payload(resp)]
         ELSE [ret |-> FALSE, disk |-> d]

\* what .get("Blobs").get("Blob") is for an index of n <Blob> elements:
\* xmltodict gives None for the empty <Blobs/>, one dict for a single child
\* and a list for repeated children
BlobShape(n) == IF n = 0 THEN "none" ELSE IF n = 1 THEN "dict" ELSE "list"

\* the condition of the list comprehension of try_another_version
Selected(u, v, o) == Split0(u.Name) = Split0(v) /\ StrIn(o, u.Name)

\* [u for u in urls if ...]
RECURSIVE ListUrls(_, _, _)
ListUrls(urls, v, o) ==
    IF urls = <<>> THEN <<>>
    ELSE (IF Selected(Head(urls), v, o) THEN <<Head(urls)>> ELSE <<>>)
         \o ListUrls(Tail(urls), v, o)

\* the loop body returns True when the download and the test both pass
LoopReturnsOnDownload(download_status, test_status) == download_status
LoopReturns(download_status, test_status) == download_status /\ test_status

\* send_mail(): str(self.token_mail) raises AttributeError inside the try
\* (token_mail is assigned nowhere), the except logs it: nothing is sent
send_mail(sent) == sent

\* the except clause of try_another_version calls send_mail once
HandlerSkipsMail(n) == n
HandlerMails(n) == n + 1

\* copy_to_path(): self.BOT_FOLDERS is assigned nowhere, the for statement
\* raises AttributeError and nothing catches it
copy_to_path == "AttributeError"

\* ------------------------------------------------------------- __main__
\* if not s.test(): ... else fall through to the last log line
AlwaysDownload(t) == "download"
AfterTest1(t) == IF t THEN "final_log" ELSE "download"

\* if not s.test(): try_another_version ... else copy_to_path
SkipCopyAfterTest2(t) == IF t THEN "final_log" ELSE "tav"
AfterTest2(t) == IF t THEN "copy" ELSE "tav"

\* if not status: notify and exit ... else copy_to_path
AfterTav(st) == IF st = "True" THEN "copy" ELSE "notify"

Ended == pc \in {"done", "exited", "crashed"}

Init ==
    /\ version \in EdgeVersions
    /\ os_type \in OsTypes
    /\ url = DriverPath(version, os_type)
    /\ disk \in BinaryKinds \ {"partial"}
    /\ pc = "test1"
    /\ run = 1
    /\ startDisk = disk
    /\ prevOutcome = "none"
    /\ test1 = "unset" /\ dlResp = "unset" /\ dlRet = "unset" /\ test2 = "unset"
    /\ status = "unset" /\ tavError = "none"
    /\ listing = <<>> /\ list_urls = <<>> /\ i = 0 /\ attempts = <<>>
    /\ downloadCalls = 0 /\ testCalls = 0 /\ indexFetches = 0
    /\ sendMailCalls = 0 /\ mailsSent = 0 /\ copyCalls = 0
    /\ driverRunning = FALSE
    /\ exitStatus = "running"

\* line 260: s.test()
MainTest1 ==
    /\ pc = "test1"
    /\ LET r == test(disk)
       IN /\ test1' = PyBool(r.ret)
          /\ driverRunning' = r.running
          /\ pc' = AfterTest1(r.ret)
    /\ testCalls' = testCalls + 1
    /\ UNCHANGED <<version, os_type, url, disk, run, startDisk, prevOutcome,
                   dlResp, dlRet, test2, status, tavError, listing, list_urls,
                   i, attempts, downloadCalls, indexFetches, sendMailCalls,
                   mailsSent, copyCalls, exitStatus>>

\* line 261: s.download(), the result is not looked at
MainDownload ==
    /\ pc = "download"
    /\ \E resp \in Responses :
          LET r == download(resp, disk)
          IN /\ dlResp' = resp
             /\ dlRet' = PyBool(r.ret)
             /\ disk' = r.disk
    /\ downloadCalls' = downloadCalls + 1
    /\ pc' = "test2"
    /\ UNCHANGED <<version, os_type, url, run, startDisk, prevOutcome, test1,
                   test2, status, tavError, listing, list_urls, i, attempts,
                   testCalls, indexFetches, sendMailCalls, mailsSent,
                   copyCalls, driverRunning, exitStatus>>

\* line 262: s.test()
MainTest2 ==
    /\ pc = "test2"
    /\ LET r == test(disk)
       IN /\ test2' = PyBool(r.ret)
          /\ driverRunning' = r.running
          /\ pc' = AfterTest2(r.ret)
    /\ testCalls' = testCalls + 1
    /\ UNCHANGED <<version, os_type, url, disk, run, startDisk, prevOutcome,
                   test1, dlResp, dlRet, status, tavError, listing, list_urls,
                   i, attempts, downloadCalls, indexFetches, sendMailCalls,
                   mailsSent, copyCalls, exitStatus>>

\* lines 165-172: the except clause of try_another_version
Handler(what) ==
    /\ tavError' = what
    /\ sendMailCalls' = HandlerMails(sendMailCalls)
    /\ mailsSent' = send_mail(mailsSent)
    /\ status' = "False"
    /\ pc' = "after_tav"

\* lines 146-147: requests.get(BASE_URL) or xmltodict.parse raises
TavFetchRaises ==
    /\ pc = "tav"
    /\ indexFetches' = indexFetches + 1
    /\ \E what \in {"fetch", "parse"} : Handler(what)
    /\ UNCHANGED <<version, os_type, url, disk, run, startDisk, prevOutcome,
                   test1, dlResp, dlRet, test2, listing, list_urls, i,
                   attempts, downloadCalls, testCalls, copyCalls,
                   driverRunning, exitStatus>>

\* lines 146-151 for an index of fewer than two blobs: .get on None, or
\* u["Name"] on a key of the single blob's dict, raises
TavShapeRaises ==
    /\ pc = "tav"
    /\ indexFetches' = indexFetches + 1
    /\ \E l \in Listings :
          /\ BlobShape(Len(l)) # "list"
          /\ listing' = l
    /\ Handler("shape")
    /\ UNCHANGED <<version, os_type, url, disk, run, startDisk, prevOutcome,
                   test1, dlResp, dlRet, test2, list_urls, i, attempts,
                   downloadCalls, testCalls, copyCalls, driverRunning,
                   exitStatus>>

\* lines 146-151 for an index of two blobs or more
TavFilter ==
    /\ pc = "tav"
    /\ indexFetches' = indexFetches + 1
    /\ \E l \in Listings :
          /\ BlobShape(Len(l)) = "list"
          /\ listing' = l
          /\ list_urls' = ListUrls(l, version, os_type)
    /\ i' = 1
    /\ pc' = "tav_loop"
    /\ UNCHANGED <<version, os_type, url, disk, run, startDisk, prevOutcome,
                   test1, dlResp, dlRet, test2, status, tavError, attempts,
                   downloadCalls, testCalls, sendMailCalls, mailsSent,
                   copyCalls, driverRunning, exitStatus>>

\* lines 153-163: one iteration of the loop
TavIter ==
    /\ pc = "tav_loop"
    /\ i <= Len(list_urls)
    /\ url' = list_urls[i].Url
    /\ downloadCalls' = downloadCalls + 1
    /\ \E resp \in Responses :
          LET d == download(resp, disk)
              t == IF d.ret THEN test(d.disk)
                   ELSE [ret |-> FALSE, running |-> driverRunning]
          IN /\ disk' = d.disk
             /\ testCalls' = IF d.ret THEN testCalls + 1 ELSE testCalls
             /\ driverRunning' = t.running
             /\ attempts' = Append(attempts,
                                   [k |-> i, Name |-> list_urls[i].Name,
                                    download_status |-> d.ret,
                                    test_status |-> t.ret])
             /\ IF LoopReturns(d.ret, t.ret)
                THEN /\ status' = "True"
                     /\ pc' = "after_tav"
                     /\ i' = i
                ELSE /\ status' = status
                     /\ pc' = pc
                     /\ i' = i + 1
    /\ UNCHANGED <<version, os_type, run, startDisk, prevOutcome, test1,
                   dlResp, dlRet, test2, tavError, listing, list_urls,
                   indexFetches, sendMailCalls, mailsSent, copyCalls,
                   exitStatus>>

\* line 164: the loop is over, return False
TavExhausted ==
    /\ pc = "tav_loop"
    /\ i > Len(list_urls)
    /\ status' = "False"
    /\ pc' = "after_tav"
    /\ UNCHANGED <<version, os_type, url, disk, run, startDisk, prevOutcome,
                   test1, dlResp, dlRet, test2, tavError, listing, list_urls,
                   i, attempts, downloadCalls, testCalls, indexFetches,
                   sendMailCalls, mailsSent, copyCalls, driverRunning,
                   exitStatus>>

\* line 264: if not status
MainAfterTav ==
    /\ pc = "after_tav"
    /\ pc' = AfterTav(status)
    /\ UNCHANGED <<version, os_type, url, disk, run, startDisk, prevOutcome,
                   test1, dlResp, dlRet, test2, status, tavError, listing,
                   list_urls, i, attempts, downloadCalls, testCalls,
                   indexFetches, sendMailCalls, mailsSent, copyCalls,
                   driverRunning, exitStatus>>

\* lines 265-268: log and s.send_mail(...)
MainNotify ==
    /\ pc = "notify"
    /\ sendMailCalls' = sendMailCalls + 1
    /\ mailsSent' = send_mail(mailsSent)
    /\ pc' = "exit"
    /\ UNCHANGED <<version, os_type, url, disk, run, startDisk, prevOutcome,
                   test1, dlResp, dlRet, test2, status, tavError, listing,
                   list_urls, i, attempts, downloadCalls, testCalls,
                   indexFetches, copyCalls, driverRunning, exitStatus>>

\* line 269: exit() raises SystemExit(None), the process ends with status 0
MainExit ==
    /\ pc = "exit"
    /\ exitStatus' = "0"
    /\ pc' = "exited"
    /\ UNCHANGED <<version, os_type, url, disk, run, startDisk, prevOutcome,
                   test1, dlResp, dlRet, test2, status, tavError, listing,
                   list_urls, i, attempts, downloadCalls, testCalls,
                   indexFetches, sendMailCalls, mailsSent, copyCalls,
                   driverRunning>>

\* lines 271 and 273: s.copy_to_path(); the uncaught AttributeError ends the
\* process with a traceback and status 1
MainCopy ==
    /\ pc = "copy"
    /\ copyCalls' = copyCalls + 1
    /\ IF copy_to_path = "AttributeError"
       THEN pc' = "crashed" /\ exitStatus' = "1"
       ELSE pc' = "final_log" /\ exitStatus' = exitStatus
    /\ UNCHANGED <<version, os_type, url, disk, run, startDisk, prevOutcome,
                   test1, dlResp, dlRet, test2, status, tavError, listing,
                   list_urls, i, attempts, downloadCalls, testCalls,
                   indexFetches, sendMailCalls, mailsSent, driverRunning>>

\* line 274: the last log line, the script ends with status 0
MainFinal ==
    /\ pc = "final_log"
    /\ exitStatus' = "0"
    /\ pc' = "done"
    /\ UNCHANGED <<version, os_type, url, disk, run, startDisk, prevOutcome,
                   test1, dlResp, dlRet, test2, status, tavError, listing,
                   list_urls, i, attempts, downloadCalls, testCalls,
                   indexFetches, sendMailCalls, mailsSent, copyCalls,
                   driverRunning>>

\* how a run ended, by the stage that provisioned the binary
Outcome ==
    IF test1 = "True" THEN "stage1"
    ELSE IF test2 = "True" THEN "stage2"
    ELSE IF status = "True" THEN "stage3"
    ELSE "failed"

\* the script is started again (line 259); the working directory is kept
NewRun ==
    /\ Ended
    /\ run < MaxRuns
    /\ run' = run + 1
    /\ prevOutcome' = Outcome
    /\ startDisk' = disk
    /\ url' = DriverPath(version, os_type)
    /\ pc' = "test1"
    /\ test1' = "unset" /\ dlResp' = "unset" /\ dlRet' = "unset" /\ test2' = "unset"
    /\ status' = "unset" /\ tavError' = "none"
    /\ listing' = <<>> /\ list_urls' = <<>> /\ i' = 0 /\ attempts' = <<>>
    /\ downloadCalls' = 0 /\ testCalls' = 0 /\ indexFetches' = 0
    /\ sendMailCalls' = 0 /\ mailsSent' = 0 /\ copyCalls' = 0
    /\ driverRunning' = FALSE
    /\ exitStatus' = "running"
    /\ UNCHANGED <<version, os_type, disk>>

Next ==
    \/ MainTest1
    \/ MainDownload
    \/ MainTest2
    \/ TavFetchRaises
    \/ TavShapeRaises
    \/ TavFilter
    \/ TavIter
    \/ TavExhausted
    \/ MainAfterTav
    \/ MainNotify
    \/ MainExit
    \/ MainCopy
    \/ MainFinal
    \/ NewRun

Spec == Init /\ [][Next]_vars

\* ================================================================ claims
PassedBoth(a) == a.download_status /\ a.test_status

\* the entries of the index the claims call matching: same major version as
\* the detected one, and the configured OS tag in the name
Matching(u) == Split0(u.Name) = Split0(version) /\ StrIn(os_type, u.Name)
MatchingEntries == SelectSeq(listing, Matching)

\* try_another_version has returned
TavReturned == status # "unset"

\* the index was fetched and parsed (requests.get and xmltodict.parse
\* raised nothing)
IndexRead == indexFetches = 1 /\ tavError \notin {"fetch", "parse"}

C2Claim ==
    (Ended /\ test1 = "False" /\ test2 = "False" /\ status = "False")
        => (sendMailCalls >= 1 /\ exitStatus # "0")

\* C3: the loop of try_another_version attempts list_urls[1], list_urls[2],
\* ... in that order, each once; every attempt before the last one failed
\* the download or the smoke test; try_another_version returns True exactly
\* when the last attempt passed both, and nothing is downloaded afterwards.
C3FirstSuccess ==
    /\ Len(attempts) <= Len(list_urls)
    /\ \A k \in 1..Len(attempts) :
          /\ attempts[k].k = k
          /\ attempts[k].Name = list_urls[k].Name
          /\ k < Len(attempts) => ~PassedBoth(attempts[k])
    /\ status = "True" <=>
          (attempts # <<>> /\ PassedBoth(attempts[Len(attempts)]))
    /\ TavReturned => downloadCalls = 1 + Len(attempts)
    /\ (TavReturned /\ status = "False" /\ tavError = "none")
          => Len(attempts) = Len(list_urls)

C3Witness ==
    /\ status = "True"
    /\ Len(attempts) = 2
    /\ Len(list_urls) = 3
    /\ attempts[1].download_status
    /\ Ended

\* C4: when the index was read and either none of its entries matches or
\* every matching entry was attempted and failed, try_another_version
\* returns False and the run that exits has called send_mail exactly once.
C4Claim ==
    (TavReturned /\ IndexRead
       /\ \/ MatchingEntries = <<>>
          \/ /\ Len(attempts) = Len(MatchingEntries)
             /\ \A k \in 1..Len(attempts) : ~PassedBoth(attempts[k]))
        => (status = "False" /\ (pc = "exited" => sendMailCalls = 1))

\* C5: after a failed first smoke test and a 404 for the matched version,
\* download has returned False, the binary is untouched, the process has
\* not ended when the second test is over, and try_another_version is
\* called.
C5Non200 ==
    (test1 = "False" /\ dlResp = "404") =>
        /\ dlRet = "False"
        /\ pc \in {"test2", "tav"} => (disk = startDisk /\ exitStatus = "running")
        /\ pc # "test2" => (test2 = "False" /\ (pc = "tav" \/ indexFetches = 1))

C5Witness == test1 = "False" /\ dlResp = "404" /\ indexFetches = 1 /\ Ended

\* C6: a run that starts with a working binary runs stage 1 alone: one
\* smoke test, no download, no fetch of the index, no copy, no mail; and
\* the run that follows a run that provisioned a binary starts that way.
C6Idempotent ==
    /\ startDisk = "good" =>
          /\ downloadCalls = 0 /\ indexFetches = 0
          /\ copyCalls = 0 /\ sendMailCalls = 0
          /\ testCalls <= 1
          /\ pc \in {"test1", "final_log", "done"}
          /\ test1 # "False"
    /\ prevOutcome \in {"stage1", "stage2", "stage3"} => startDisk = "good"

C6Witness ==
    /\ run = 2
    /\ prevOutcome \in {"stage2", "stage3"}
    /\ pc = "done"
    /\ testCalls = 1

\* C7: once the index is read, the candidates the loop iterates are exactly
\* the matching entries of the listing, in listing order.
C7Claim == (TavReturned /\ IndexRead) => list_urls = MatchingEntries

\* C8: no run ends with an error escaping the ladder.
C8Claim == pc # "crashed"

\* C9: once test has been called and has returned, no driver process it
\* launched is still running.
C9Claim == testCalls >= 1 => ~driverRunning

\* C10 as stated: when the fetch or the parse of the index raises,
\* try_another_version returns False, the error does not leave it, and the
\* run that exits has called send_mail exactly once.
C10Original ==
    tavError \in {"fetch", "parse"} =>
        /\ status = "False"
        /\ pc # "crashed"
        /\ pc = "exited" => sendMailCalls = 1

\* C10 amended: when the fetch or the parse of the index raises,
\* try_another_version returns False, the error does not leave it, and
\* send_mail is called exactly twice before the run exits: once by the
\* except clause of try_another_version and once by the __main__ block.
C10Amended ==
    tavError \in {"fetch", "parse"} =>
        /\ status = "False"
        /\ pc # "crashed"
        /\ pc \in {"after_tav", "notify"} => sendMailCalls = 1
        /\ pc \in {"exit", "exited"} => sendMailCalls = 2

C10Witness == tavError = "parse" /\ pc = "exited" /\ sendMailCalls = 2

====
